---- MODULE Spec2Model ----
(***************************************************************************)
(* Model of the metals-price aggregator (src/server.ts, lines 118-244):    *)
(* fetchFromGoldApi and the three-tier fetchLiveMetalPrices.               *)
(*                                                                         *)
(* Numbers.  A JavaScript value is a record [k, v]; k is its kind and v    *)
(* the payload of a number.  Amounts are fixed-point integers counting     *)
(* 1/24 rupee, the coarsest grid on which every constant of the source     *)
(* (8250.50, 105000.75, 945.25) and the products by 22/24 and 18/24 of the *)
(* constants are exact.  A division rounds down to that grid, as a double  *)
(* rounds to its own.                                                      *)
(***************************************************************************)
EXTENDS Integers, Sequences, FiniteSets, TLC

VARIABLES
    pc,          \* position of the running fetchLiveMetalPrices call
    fetchState,  \* per symbol: state of the fetchFromGoldApi promise
    fetchVal,    \* per symbol: the value / error the promise settled with
    fetchResp,   \* per symbol: the HTTP response received (status line)
    reqCount,    \* per symbol: outbound requests issued by this call
    genCount,    \* generative calls issued by this call, per prompt
    locals,      \* the tier-1 locals computed at lines 155-169
    copperResponse, \* how the copper call of line 174 settled
    response,    \* how the tier-2 call of line 198 settled
    tiers,       \* tiers entered by this call, in order
    threw,       \* tiers of this call that raised into their catch
    outcome,     \* "none" | "returned" | "threw": how the call settled
    result,      \* the MetalPrices value the call resolved with
    \* the dashboard component App (src/unnamed/part_000, lines 51-178)
    mounted,     \* the component is mounted
    basePrices,  \* useState, line 52
    livePrices,  \* useState, line 53
    loading,     \* useState, line 54
    lastFetch,   \* useState, line 56: the stamp of the last completed refresh
    history,     \* useState, lines 57-61
    inflight,    \* the loadPrices calls suspended at the await of line 108
    started,     \* how many loadPrices calls have been started
    refreshTimer, \* the 60 s interval of line 128 is set
    tickers,     \* how many 1 s intervals of line 136 are set
    clock,       \* how many ticks have fired: the time stamp of line 158
    dataLoaded,  \* data: what the await of line 108 last resolved with
    writer,      \* the loadPrices call that last wrote the state
    draws,       \* the Math.random() values of the last tick, per field
    sinceRefresh, \* ticks applied since the state was last written by a refresh
    appended     \* every point ever appended to a history, per metal

aggVars == <<pc, fetchState, fetchVal, fetchResp, reqCount, genCount, locals,
             copperResponse, response, tiers, threw, outcome, result>>

appVars == <<mounted, basePrices, livePrices, loading, lastFetch, history,
             inflight, started, refreshTimer, tickers, clock, dataLoaded, writer,
             draws, sinceRefresh, appended>>

vars == <<aggVars, appVars>>

Symbols == {"XAU", "XAG"}

-----------------------------------------------------------------------------
(* JavaScript values *)

Rupees(n) == n * 24

Num(n) == [k |-> "num", v |-> n]
NaN == [k |-> "nan", v |-> 0]
Infinity == [k |-> "inf", v |-> 0]
Undefined == [k |-> "undefined", v |-> 0]
Null == [k |-> "null", v |-> 0]
Str == [k |-> "string", v |-> 0]
NumStr(n) == [k |-> "numstring", v |-> n]

\* ToNumber, the coercion applied by `/`, by Number() and by isNaN().
ToNumber(x) ==
    CASE x.k = "num" -> x
      [] x.k = "inf" -> x
      [] x.k = "nan" -> x
      [] x.k = "numstring" -> Num(x.v)
      [] x.k = "null" -> Num(0)
      [] OTHER -> NaN

isNaN(x) == ToNumber(x).k = "nan"

\* x > c and x < c for a finite c; every comparison with NaN is false.
Gt(x, c) == (x.k = "num" /\ x.v > c) \/ x.k = "inf"
Lt(x, c) == x.k = "num" /\ x.v < c

\* x * (a / b)
Scale(x, a, b) == IF x.k = "num" THEN Num((x.v * a) \div b) ELSE x

\* x / 31.1035: 31.1035 = 62207 / 2000; the quotient and the remainder are
\* scaled apart so that no intermediate product leaves 32 bits.
PerGram(x) ==
    LET n == ToNumber(x)
    IN IF n.k = "num"
       THEN Num((n.v \div 62207) * 2000 + ((n.v % 62207) * 2000) \div 62207)
       ELSE n

IsNumber(x) == x.k \in {"num", "nan", "inf"}
IsFinite(x) == x.k = "num"

-----------------------------------------------------------------------------
(* MetalPrices, server.ts 123-131 *)

MetalPrices(g24, g22, g18, s, c, t) ==
    [gold24k |-> g24, gold22k |-> g22, gold18k |-> g18, silver |-> s,
     copper |-> c, lastUpdated |-> t, currency |-> "INR"]

PriceFields == {"gold24k", "gold22k", "gold18k", "silver", "copper"}

NoPrices ==
    [gold24k |-> Undefined, gold22k |-> Undefined, gold18k |-> Undefined,
     silver |-> Undefined, copper |-> Undefined, lastUpdated |-> "",
     currency |-> ""]

\* A value a caller may receive: every price field has type number.
IsMetalPrices(r) ==
    /\ \A f \in PriceFields : IsNumber(r[f])
    /\ r.lastUpdated \in {"now", "json"}
    /\ r.currency = "INR"

-----------------------------------------------------------------------------
(* Tier 1: conversion and plausibility gate, server.ts 155-169 *)

GoldFallback == Rupees(8250) + 12           \* 8250.50
SilverFallback == Rupees(105000) + 18       \* 105000.75
CopperFallback == Rupees(945) + 6           \* 945.25

GoldLow == Rupees(5000)
GoldHigh == Rupees(12000)
SilverLow == Rupees(50000)
SilverHigh == Rupees(150000)

\* A parsed response body: a JSON object with a price member, or JSON null.
Quote(p) == [k |-> "object", price |-> p]
NullBody == [k |-> "null", price |-> Undefined]

\* the ounce price taken for a gram price
goldPricePerGram24k_noConversion(goldData) == ToNumber(goldData.price)

goldPricePerGram24k(goldData) == PerGram(goldData.price)

finalGold24k(g) == IF Gt(g, GoldLow) /\ Lt(g, GoldHigh) THEN g ELSE Num(GoldFallback)

silverPricePerKg(silverData) == Scale(PerGram(silverData.price), 1000, 1)

finalSilver(s) == IF Gt(s, SilverLow) /\ Lt(s, SilverHigh) THEN s ELSE Num(SilverFallback)

\* the karats derived from the conversion before the gate
Tier1Convert_karatsBeforeGate(goldData, silverData) ==
    IF goldData.k = "null" \/ silverData.k = "null"
    THEN [threw |-> TRUE, g24 |-> NaN, fg24 |-> NaN, g22 |-> NaN, g18 |-> NaN,
          s |-> NaN, fs |-> NaN]
    ELSE LET g == PerGram(goldData.price)
             fg == IF Gt(g, GoldLow) /\ Lt(g, GoldHigh) THEN g ELSE Num(GoldFallback)
             s == Scale(PerGram(silverData.price), 1000, 1)
         IN [threw |-> FALSE, g24 |-> g, fg24 |-> fg,
             g22 |-> Scale(g, 22, 24), g18 |-> Scale(g, 18, 24),
             s |-> s,
             fs |-> IF Gt(s, SilverLow) /\ Lt(s, SilverHigh) THEN s ELSE Num(SilverFallback)]

\* Lines 155-169 as one computation: reading .price of a null body raises
\* a TypeError, which leaves the try block.
Tier1Convert(goldData, silverData) ==
    IF goldData.k = "null" \/ silverData.k = "null"
    THEN [threw |-> TRUE, g24 |-> NaN, fg24 |-> NaN, g22 |-> NaN, g18 |-> NaN,
          s |-> NaN, fs |-> NaN]
    ELSE LET g == goldPricePerGram24k(goldData)
             fg == finalGold24k(g)
             s == silverPricePerKg(silverData)
         IN [threw |-> FALSE, g24 |-> g, fg24 |-> fg,
             g22 |-> Scale(fg, 22, 24), g18 |-> Scale(fg, 18, 24),
             s |-> s, fs |-> finalSilver(s)]

NoLocals ==
    [threw |-> FALSE, g24 |-> Undefined, fg24 |-> Undefined, g22 |-> Undefined,
     g18 |-> Undefined, s |-> Undefined, fs |-> Undefined]

-----------------------------------------------------------------------------
(* Copper estimate, server.ts 172-182 *)

\* A generated text is a sequence of tokens: a numeric literal, the word
\* Infinity, white space, or any other word.
TNum(n) == [k |-> "num", v |-> n]
TInf == [k |-> "inf", v |-> 0]
TSpace == [k |-> "space", v |-> 0]
TWord == [k |-> "word", v |-> 0]

RECURSIVE parseFloat(_)
\* parseFloat: skips leading white space, reads the numeric prefix, ignores
\* what follows it; NaN when the text does not start with a number.
parseFloat(text) ==
    IF text = <<>> THEN NaN
    ELSE CASE Head(text).k = "space" -> parseFloat(Tail(text))
           [] Head(text).k = "num" -> Num(Head(text).v)
           [] Head(text).k = "inf" -> Infinity
           [] OTHER -> NaN

\* How a generateContent call settles: it rejects, or resolves with a text.
Pending == [k |-> "pending", text |-> <<>>]
Rejected == [k |-> "rejected", text |-> <<>>]
Text(t) == [k |-> "resolved", text |-> t]

\* the parsed value assigned without the isNaN test of line 179
copperPrice_unguarded(gen) ==
    IF gen.k = "rejected" THEN Num(CopperFallback) ELSE parseFloat(gen.text)

\* Lines 172-182: the value of copperPrice after the inner try/catch.
copperPrice(gen) ==
    IF gen.k = "rejected" THEN Num(CopperFallback)
    ELSE LET val == parseFloat(gen.text)
         IN IF ~isNaN(val) THEN val ELSE Num(CopperFallback)

\* Lines 184-192: the object tier 1 returns.
Tier1Return(l, gen) ==
    MetalPrices(l.g24, l.g22, l.g18, l.s, copperPrice(gen), "now")

-----------------------------------------------------------------------------
(* Tier 2 and tier 3, server.ts 193-243 *)

JsonKeys ==
    {"gold24k_per_gram", "gold22k_per_gram", "gold18k_per_gram",
     "silver_per_kg", "copper_per_kg", "last_updated_time"}

NoMembers == [key \in JsonKeys |-> Undefined]

\* The text of the tier-2 response, by what JSON.parse makes of it: no text,
\* text that is not JSON, the literal null, a number / string / array (a
\* value without the requested members), or an object.
EmptyText == [k |-> "empty", f |-> NoMembers]
Malformed == [k |-> "malformed", f |-> NoMembers]
JsonNull == [k |-> "null", f |-> NoMembers]
JsonScalar == [k |-> "scalar", f |-> NoMembers]
JsonObject(members) == [k |-> "object", f |-> members]

\* Lines 215-216: response.text || "{}", then JSON.parse.
JSONparse(text) ==
    CASE text.k = "malformed" -> [threw |-> TRUE, k |-> "undefined", f |-> NoMembers]
      [] text.k = "empty" -> [threw |-> FALSE, k |-> "object", f |-> NoMembers]
      [] OTHER -> [threw |-> FALSE, k |-> text.k, f |-> text.f]

\* validate without its isNaN test
validate_withoutNaNTest(val, fallback) ==
    LET num == ToNumber(val)
    IN IF num.k = "num" /\ num.v <= 0 THEN Num(fallback) ELSE num

\* validate with num < 0 for num <= 0
validate_zeroAccepted(val, fallback) ==
    LET num == ToNumber(val)
    IN IF isNaN(num) \/ (num.k = "num" /\ num.v < 0) THEN Num(fallback) ELSE num

\* Lines 218-221.
validate(val, fallback) ==
    LET num == ToNumber(val)
    IN IF isNaN(num) \/ (num.k = "num" /\ num.v <= 0) THEN Num(fallback) ELSE num

\* Line 229: data.last_updated_time || new Date().toLocaleString()
lastUpdated(t) == IF t.k = "string" THEN "json" ELSE "now"

\* Lines 198-231, the inner try block, given how the generative call settled.
Tier2Try(gen) ==
    IF gen.k = "rejected" THEN [threw |-> TRUE, val |-> NoPrices]
    ELSE LET data == JSONparse(gen.text)
         IN IF data.threw \/ data.k = "null"
            THEN [threw |-> TRUE, val |-> NoPrices]
            ELSE [threw |-> FALSE,
                  val |-> MetalPrices(
                      validate(data.f.gold24k_per_gram, Rupees(8650)),
                      validate(data.f.gold22k_per_gram, Rupees(7930)),
                      validate(data.f.gold18k_per_gram, Rupees(6480)),
                      validate(data.f.silver_per_kg, Rupees(108500)),
                      validate(data.f.copper_per_kg, Rupees(920)),
                      lastUpdated(data.f.last_updated_time))]

\* the static object filled with the constants of tier 1
StaticPrices_tier1Constants ==
    MetalPrices(Num(GoldFallback), Scale(Num(GoldFallback), 22, 24),
                Scale(Num(GoldFallback), 18, 24), Num(SilverFallback),
                Num(CopperFallback), "now")

\* Lines 233-241.
StaticPrices ==
    MetalPrices(Num(Rupees(8650)), Num(Rupees(7930)), Num(Rupees(6480)),
                Num(Rupees(108500)), Num(Rupees(920)), "now")

\* an inner try without its catch
Tier2Catch_absent(r) == r

\* Lines 232-242: the catch of the inner try.
Tier2Catch(r) == IF r.threw THEN [threw |-> FALSE, val |-> StaticPrices] ELSE r

-----------------------------------------------------------------------------
(* The environment: what the quote API and the generative model may answer *)

\* price members of a gold body, per troy ounce
GoldPrices ==
    {Num(62207 * 108),        \* 9000.00 per gram, inside the band
     Num(Rupees(279500)),     \* 8986.1.. per gram, inside the band
     Num(Rupees(50)),         \* implausibly low
     Num(62207 * 60),         \* 5000.00 per gram, the lower edge
     Num(62207 * 144),        \* 12000.00 per gram, the upper edge
     Num(62207 * 150),        \* 12500.00 per gram, above the band
     NumStr(62207 * 108),     \* the price as a string of digits
     Null, Str, Undefined}    \* null, a non-numeric string, no price member

\* price members of a silver body, per troy ounce
SilverPrices ==
    {Num(62207),              \* 83333.33 per kg, inside the band
     Num(Rupees(3265)),       \* 104958.3 per kg, inside the band
     Num(Rupees(50)),         \* implausibly low
     Num(37325),              \* 50000.00 per kg on the grid, the lower edge
     Num(111973),             \* 150000.00 per kg on the grid, the upper edge
     Num(62207 * 3),          \* 250000.00 per kg, above the band
     NumStr(62207),
     Undefined}

Prices(s) == IF s = "XAU" THEN GoldPrices ELSE SilverPrices

MalformedBody == [k |-> "malformed", price |-> Undefined]
NoBody == [k |-> "none", price |-> Undefined]

Bodies(s) == {MalformedBody, NullBody} \cup {Quote(p) : p \in Prices(s)}

StatusTexts == {"Forbidden", "Too Many Requests"}

CopperTexts ==
    {<<>>,
     <<TNum(Rupees(950))>>,
     <<TSpace, TNum(Rupees(950)), TSpace, TWord>>,
     <<TWord, TSpace, TNum(Rupees(950))>>,
     <<TNum(0)>>,
     <<TNum(0 - Rupees(5))>>,
     <<TNum(Rupees(2000000))>>,
     <<TInf>>}

CopperResponses == {Rejected} \cup {Text(t) : t \in CopperTexts}

JsonNumbers == {Num(Rupees(7000)), Num(0), Num(0 - Rupees(1)), Str, Undefined}

JsonObjects ==
    {JsonObject([key \in JsonKeys |->
                    CASE key = "gold24k_per_gram" -> a
                      [] key = "gold22k_per_gram" -> b
                      [] key = "gold18k_per_gram" -> c
                      [] key = "silver_per_kg" -> d
                      [] key = "copper_per_kg" -> e
                      [] OTHER -> t]) :
        <<a, b, c, d, e, t>> \in JsonNumbers \X JsonNumbers \X JsonNumbers
                                 \X JsonNumbers \X JsonNumbers \X {Str, Undefined}}

Tier2Responses ==
    {Rejected} \cup {Text(t) : t \in {EmptyText, Malformed, JsonNull, JsonScalar}
                                     \cup JsonObjects}

-----------------------------------------------------------------------------
(* The calls as processes *)

NoError == [name |-> "", message |-> <<>>]
NoValue == [k |-> "none", body |-> NoBody, err |-> NoError]
Value(b) == [k |-> "value", body |-> b, err |-> NoError]
Failure(e) == [k |-> "error", body |-> NoBody, err |-> e]

\* fetch() itself rejects on a network failure
NetworkError == [name |-> "TypeError", message |-> <<"fetch failed">>]
\* line 140
GoldApiError(statusText) == [name |-> "Error", message |-> <<"GoldAPI error: ", statusText>>]
\* response.json() rejects on a body that is not JSON
BodyError == [name |-> "SyntaxError", message |-> <<"Unexpected token">>]

NoResponse == [k |-> "none", ok |-> FALSE, statusText |-> "", body |-> NoBody]
Response(ok, st) == [k |-> "response", ok |-> ok, statusText |-> st, body |-> NoBody]
NoConnection == [k |-> "failed", ok |-> FALSE, statusText |-> "", body |-> NoBody]

\* The dashboard before it is mounted: the initial values of lines 52-61.
Metals == {"gold", "silver", "copper"}

NoDraws == [f \in PriceFields |-> 5]

AppState(m) ==
    /\ mounted = m
    /\ basePrices = NoPrices
    /\ livePrices = NoPrices
    /\ loading = TRUE
    /\ lastFetch = 0
    /\ history = [x \in Metals |-> <<>>]
    /\ inflight = IF m THEN {1} ELSE {}
    /\ started = IF m THEN 1 ELSE 0
    /\ refreshTimer = m
    /\ tickers = 0
    /\ clock = 0
    /\ dataLoaded = NoPrices
    /\ writer = 0
    /\ draws = NoDraws
    /\ sinceRefresh = 0
    /\ appended = [x \in Metals |-> <<>>]

AggIdle ==
    /\ pc = "idle"
    /\ fetchState = [s \in Symbols |-> "none"]
    /\ fetchVal = [s \in Symbols |-> NoValue]
    /\ fetchResp = [s \in Symbols |-> NoResponse]
    /\ reqCount = [s \in Symbols |-> 0]
    /\ genCount = [copper |-> 0, json |-> 0]
    /\ locals = NoLocals
    /\ copperResponse = Pending
    /\ response = Pending
    /\ tiers = <<>>
    /\ threw = {}
    /\ outcome = "none"
    /\ result = NoPrices

Init == AggIdle /\ AppState(FALSE)

\* Lines 144-150: a call of fetchLiveMetalPrices runs up to the await of
\* Promise.all; both fetchFromGoldApi calls have by then run up to their own
\* await of fetch (line 134), so both requests are out.
Call ==
    /\ pc \in {"idle", "done"}
    /\ pc' = "awaitAll"
    /\ fetchState' = [s \in Symbols |-> "pending"]
    /\ fetchVal' = [s \in Symbols |-> NoValue]
    /\ fetchResp' = [s \in Symbols |-> NoResponse]
    /\ reqCount' = [s \in Symbols |-> 1]
    /\ genCount' = [copper |-> 0, json |-> 0]
    /\ locals' = NoLocals
    /\ copperResponse' = Pending
    /\ response' = Pending
    /\ tiers' = <<1>>
    /\ threw' = {}
    /\ outcome' = "none"
    /\ result' = NoPrices
    /\ UNCHANGED appVars

\* Lines 193-213: the outer catch issues the tier-2 generative call.
EnterTier2 ==
    /\ pc' = "awaitTier2"
    /\ tiers' = Append(tiers, 2)
    /\ threw' = threw \cup {1}
    /\ genCount' = [genCount EXCEPT !.json = @ + 1]
    /\ locals' = locals

\* the await of line 147 with Promise.allSettled for Promise.all: the call
\* continues only when neither fetch is unsettled
AwaitAll_allSettled(fs, fv) ==
    IF pc # "awaitAll" \/ \E s \in Symbols : fs[s] \in {"pending", "parsing"}
    THEN UNCHANGED <<pc, tiers, threw, genCount, locals>>
    ELSE IF \E s \in Symbols : fs[s] = "rejected"
    THEN EnterTier2
    ELSE LET l == Tier1Convert(fv["XAU"].body, fv["XAG"].body)
         IN IF l.threw
            THEN EnterTier2
            ELSE /\ pc' = "awaitCopper"
                 /\ locals' = l
                 /\ genCount' = [genCount EXCEPT !.copper = @ + 1]
                 /\ UNCHANGED <<tiers, threw>>

\* Line 147: what the call awaiting Promise.all does once the promises are in
\* states fs with values fv.  Promise.all rejects with the first rejection
\* and resolves when every promise has resolved.
AwaitAll(fs, fv) ==
    IF pc # "awaitAll"
    THEN UNCHANGED <<pc, tiers, threw, genCount, locals>>
    ELSE IF \E s \in Symbols : fs[s] = "rejected"
    THEN EnterTier2
    ELSE IF \A s \in Symbols : fs[s] = "resolved"
    THEN LET l == Tier1Convert(fv["XAU"].body, fv["XAG"].body)
         IN IF l.threw
            THEN EnterTier2
            ELSE /\ pc' = "awaitCopper"
                 /\ locals' = l
                 /\ genCount' = [genCount EXCEPT !.copper = @ + 1]
                 /\ UNCHANGED <<tiers, threw>>
    ELSE UNCHANGED <<pc, tiers, threw, genCount, locals>>

\* A fetchFromGoldApi promise settles; the awaiting call continues.
Settle(s, state, val) ==
    /\ fetchState' = [fetchState EXCEPT ![s] = state]
    /\ fetchVal' = [fetchVal EXCEPT ![s] = val]
    /\ AwaitAll(fetchState', fetchVal')
    /\ UNCHANGED <<reqCount, copperResponse, response, outcome, result, appVars>>

\* fetchFromGoldApi sending the request once more after a non-success status
FetchRespond_retry(s) ==
    /\ fetchState[s] = "pending"
    /\ \/ /\ fetchResp' = [fetchResp EXCEPT ![s] = NoConnection]
          /\ Settle(s, "rejected", Failure(NetworkError))
       \/ \E st \in StatusTexts :
             /\ fetchResp' = [fetchResp EXCEPT ![s] = Response(FALSE, st)]
             /\ IF reqCount[s] < 2
                THEN /\ reqCount' = [reqCount EXCEPT ![s] = @ + 1]
                     /\ UNCHANGED <<pc, fetchState, fetchVal, genCount, locals,
                                    copperResponse, response, tiers, threw,
                                    outcome, result, appVars>>
                ELSE Settle(s, "rejected", Failure(GoldApiError(st)))
       \/ /\ fetchResp' = [fetchResp EXCEPT ![s] = Response(TRUE, "OK")]
          /\ fetchState' = [fetchState EXCEPT ![s] = "parsing"]
          /\ UNCHANGED <<pc, fetchVal, reqCount, genCount, locals,
                         copperResponse, response, tiers, threw, outcome,
                         result, appVars>>

\* Lines 134-140: the fetch of symbol s settles.
FetchRespond(s) ==
    /\ fetchState[s] = "pending"
    /\ \/ /\ fetchResp' = [fetchResp EXCEPT ![s] = NoConnection]
          /\ Settle(s, "rejected", Failure(NetworkError))
       \/ \E st \in StatusTexts :
             /\ fetchResp' = [fetchResp EXCEPT ![s] = Response(FALSE, st)]
             /\ Settle(s, "rejected", Failure(GoldApiError(st)))
       \/ /\ fetchResp' = [fetchResp EXCEPT ![s] = Response(TRUE, "OK")]
          /\ fetchState' = [fetchState EXCEPT ![s] = "parsing"]
          /\ UNCHANGED <<pc, fetchVal, reqCount, genCount, locals,
                         copperResponse, response, tiers, threw, outcome,
                         result, appVars>>

\* Line 141: the body of symbol s has arrived and response.json() settles.
FetchBody(s) ==
    /\ fetchState[s] = "parsing"
    /\ \E b \in Bodies(s) :
          /\ fetchResp' = [fetchResp EXCEPT ![s].body = b]
          /\ IF b.k = "malformed"
             THEN Settle(s, "rejected", Failure(BodyError))
             ELSE Settle(s, "resolved", Value(b))

\* Lines 174-192: the copper call settles and tier 1 returns.
CopperSettle ==
    /\ pc = "awaitCopper"
    /\ \E gen \in CopperResponses :
          /\ copperResponse' = gen
          /\ result' = Tier1Return(locals, gen)
          /\ outcome' = "returned"
    /\ pc' = "done"
    /\ UNCHANGED <<fetchState, fetchVal, fetchResp, reqCount, genCount, locals,
                   response, tiers, threw, appVars>>

\* Lines 198-243: the tier-2 call settles; the call returns the validated
\* object, or the static one from the inner catch.
Tier2Settle ==
    /\ pc = "awaitTier2"
    /\ \E gen \in Tier2Responses :
          LET r == Tier2Try(gen)
              q == Tier2Catch(r)
          IN /\ response' = gen
             /\ tiers' = IF r.threw THEN Append(tiers, 3) ELSE tiers
             /\ threw' = IF r.threw THEN threw \cup {2} ELSE threw
             /\ outcome' = IF q.threw THEN "threw" ELSE "returned"
             /\ result' = q.val
    /\ pc' = "done"
    /\ UNCHANGED <<fetchState, fetchVal, fetchResp, reqCount, genCount, locals,
                   copperResponse, appVars>>

Next ==
    \/ Call
    \/ \E s \in Symbols : FetchRespond(s)
    \/ \E s \in Symbols : FetchBody(s)
    \/ CopperSettle
    \/ Tier2Settle

Spec == Init /\ [][Next]_vars

-----------------------------------------------------------------------------
(* Properties *)

goldData == fetchVal["XAU"].body
silverData == fetchVal["XAG"].body

Returned == pc = "done" /\ outcome = "returned"
Tier1Returned == pc = "done" /\ tiers = <<1>>

GoldConversion == PerGram(goldData.price)
SilverConversion == Scale(PerGram(silverData.price), 1000, 1)

GoldInBand == Gt(GoldConversion, Rupees(5000)) /\ Lt(GoldConversion, Rupees(12000))
SilverInBand == Gt(SilverConversion, Rupees(50000)) /\ Lt(SilverConversion, Rupees(150000))

\* C1: fetchLiveMetalPrices is total.  Whatever the gold fetch, the silver
\* fetch and the generative calls answered, the call never throws to its
\* caller, it is suspended only while a call it awaits is still unsettled,
\* and once it has settled it has resolved with a MetalPrices value.
C1_Total ==
    /\ outcome # "threw"
    /\ pc = "awaitAll" =>
          /\ \E s \in Symbols : fetchState[s] \in {"pending", "parsing"}
          /\ \A s \in Symbols : fetchState[s] # "rejected"
    /\ pc = "awaitCopper" => copperResponse.k = "pending"
    /\ pc = "awaitTier2" => response.k = "pending"
    /\ pc = "done" => outcome = "returned" /\ IsMetalPrices(result)

\* Both fetches, the tier-2 call and its JSON have failed, and the call has
\* still resolved.
C1_Witness ==
    /\ Returned
    /\ \A s \in Symbols : fetchState[s] = "rejected"
    /\ response.k = "resolved" /\ response.text.k = "malformed"

\* The tier-2 call succeeded and its text parsed to a value whose members
\* can be read.
Tier2Parsed ==
    /\ response.k = "resolved"
    /\ response.text.k \in {"empty", "scalar", "object"}

\* C2: if fetchFromGoldApi threw for either symbol, the returned snapshot
\* comes from tier 2 when the tier-2 call succeeded and parsed, otherwise from
\* tier 3; tier 2 is entered only after tier 1 threw and tier 3 only after
\* tier 2 threw; no price field of the returned snapshot is NaN or undefined.
C2_Fallback ==
    /\ \E n \in 0..3 : tiers = SubSeq(<<1, 2, 3>>, 1, n)
    /\ Len(tiers) >= 2 => 1 \in threw
    /\ Len(tiers) >= 3 => 2 \in threw
    /\ (pc = "done" /\ \E s \in Symbols : fetchState[s] = "rejected") =>
          /\ tiers = IF Tier2Parsed THEN <<1, 2>> ELSE <<1, 2, 3>>
          /\ outcome = "returned"
          /\ \A f \in PriceFields : result[f].k \notin {"nan", "undefined"}

\* Only the silver fetch failed, and tier 2 produced the snapshot from
\* an object with a member that is not a number.
C2_Witness ==
    /\ Returned
    /\ fetchState["XAG"] = "rejected" /\ fetchState["XAU"] = "resolved"
    /\ tiers = <<1, 2>>
    /\ response.text.k = "object"
    /\ response.text.f.gold24k_per_gram = Str

\* C3: when both conversions lie strictly inside their bands, the tier-1
\* snapshot carries the conversions themselves in gold24k and silver, and no
\* fallback constant.
C3_InBand ==
    (Tier1Returned /\ GoldInBand /\ SilverInBand) =>
        /\ result.gold24k = GoldConversion
        /\ result.silver = SilverConversion
        /\ result.gold24k # Num(Rupees(8250) + 12)
        /\ result.silver # Num(Rupees(105000) + 18)

C3_Witness ==
    /\ Tier1Returned /\ GoldInBand /\ SilverInBand
    /\ goldData.price = Num(Rupees(279500))
    /\ result.gold24k = Num(215667)

\* C4: a quote whose conversion is outside its band (edges included) puts
\* the fixed constant in the corresponding field: gold24k = 8250.50,
\* silver = 105000.75.
C4_OutOfBand ==
    Tier1Returned =>
        /\ ~GoldInBand => result.gold24k = Num(Rupees(8250) + 12)
        /\ ~SilverInBand => result.silver = Num(Rupees(105000) + 18)

\* C5 as stated: every returned snapshot has gold22k = gold24k * 22/24 and
\* gold18k = gold24k * 18/24, whichever tier produced it.
C5_AnyTier ==
    Returned =>
        /\ result.gold22k = Scale(result.gold24k, 22, 24)
        /\ result.gold18k = Scale(result.gold24k, 18, 24)

\* the 24k value after the plausibility gate
GatedGold == IF GoldInBand THEN GoldConversion ELSE Num(Rupees(8250) + 12)

\* C5 amended: every tier-1 snapshot has gold22k = G * 22/24 and
\* gold18k = G * 18/24, G being the gated 24k value: the conversion when it
\* is inside (5000, 12000), 8250.50 otherwise.
C5_Tier1Karats ==
    Tier1Returned =>
        /\ result.gold22k = Scale(GatedGold, 22, 24)
        /\ result.gold18k = Scale(GatedGold, 18, 24)

C5_Witness ==
    /\ Tier1Returned
    /\ goldData.price = Num(Rupees(50))
    /\ result.gold22k = Num(181511)
    /\ result.gold18k = Num(148509)

\* C6: all five price fields of every returned snapshot are finite and not
\* NaN, also when a quote resolved without a usable price.
C6_Finite ==
    Returned => \A f \in PriceFields : IsFinite(result[f])

\* C7: once the copper call of tier 1 has settled, the call returns from
\* tier 1 whatever the copper call answered: gold24k and silver are the
\* tier-1 conversions, copper is 945.25 when the call failed or its text does
\* not parse to a number, and the parsed number, unbanded, otherwise.
C7_Copper ==
    (pc = "done" /\ copperResponse.k # "pending") =>
        /\ tiers = <<1>> /\ threw = {} /\ genCount.json = 0
        /\ outcome = "returned"
        /\ result.gold24k = GoldConversion
        /\ result.silver = SilverConversion
        /\ result.copper =
              IF copperResponse.k = "rejected"
                 \/ parseFloat(copperResponse.text).k = "nan"
              THEN Num(Rupees(945) + 6)
              ELSE parseFloat(copperResponse.text)

C7_Witness ==
    /\ Tier1Returned
    /\ copperResponse.k = "resolved"
    /\ copperResponse.text = <<TWord, TSpace, TNum(Rupees(950))>>
    /\ result.copper = Num(Rupees(945) + 6)

\* the member of the tier-2 JSON and the constant behind each price field
JsonKey(f) ==
    CASE f = "gold24k" -> "gold24k_per_gram"
      [] f = "gold22k" -> "gold22k_per_gram"
      [] f = "gold18k" -> "gold18k_per_gram"
      [] f = "silver" -> "silver_per_kg"
      [] f = "copper" -> "copper_per_kg"

Tier2Constant(f) ==
    CASE f = "gold24k" -> Rupees(8650)
      [] f = "gold22k" -> Rupees(7930)
      [] f = "gold18k" -> Rupees(6480)
      [] f = "silver" -> Rupees(108500)
      [] f = "copper" -> Rupees(920)

C9_Static ==
    (pc = "done" /\ 1 \in threw
        /\ (response.k = "rejected"
            \/ response.text.k \in {"malformed", "null", "scalar"})) =>
        /\ outcome = "returned"
        /\ result.gold24k = Num(Rupees(8650))
        /\ result.gold22k = Num(Rupees(7930))
        /\ result.gold18k = Num(Rupees(6480))
        /\ result.silver = Num(Rupees(108500))
        /\ result.copper = Num(Rupees(920))
        /\ result.currency = "INR"
        /\ result.lastUpdated = "now"

C9_Witness ==
    /\ pc = "done" /\ 1 \in threw
    /\ response.k = "resolved" /\ response.text.k = "null"
    /\ result.gold24k = Num(Rupees(8650))

\* C10: fetchFromGoldApi sends one request per invocation and never a
\* second one; on a response with a non-success status it throws an error
\* carrying the status text, on success it returns the parsed body; a call of
\* fetchLiveMetalPrices has sent one request for XAU and one for XAG.
C10_OneRequest ==
    \A s \in Symbols :
        /\ pc # "idle" => reqCount[s] = 1
        /\ (fetchResp[s].k = "response" /\ ~fetchResp[s].ok) =>
              /\ fetchState[s] = "rejected"
              /\ fetchVal[s].err.name = "Error"
              /\ fetchVal[s].err.message = <<"GoldAPI error: ", fetchResp[s].statusText>>
        /\ fetchState[s] = "resolved" =>
              /\ fetchResp[s].ok
              /\ fetchVal[s] = Value(fetchResp[s].body)

C10_Witness ==
    /\ pc = "done"
    /\ fetchResp["XAU"].k = "response" /\ fetchResp["XAU"].statusText = "Too Many Requests"
    /\ fetchState["XAU"] = "rejected"
    /\ fetchState["XAG"] = "resolved"
    /\ reqCount = [s \in Symbols |-> 1]

Settled(s) == fetchState[s] \in {"resolved", "rejected"}

BothStarted == \A s \in Symbols : reqCount[s] = 1 /\ fetchState[s] # "none"

\* C18 as stated: both fetches are started before either is awaited, and the
\* call moves on, to the conversion or to tier 2, only after both fetches
\* have settled.
C18_BothSettled ==
    /\ pc # "idle" => BothStarted
    /\ pc \in {"awaitCopper", "awaitTier2", "done"} => \A s \in Symbols : Settled(s)

\* C18 amended: both fetches are started before either is awaited; the call
\* moves on to the conversion only after both fetches have resolved, and to
\* tier 2 as soon as either fetch has rejected, the other one settled or not.
C18_FailFast ==
    /\ pc # "idle" => BothStarted
    /\ pc = "awaitAll" => \A s \in Symbols : fetchState[s] # "rejected"
    /\ (pc = "awaitCopper" \/ (pc = "done" /\ tiers = <<1>>)) =>
          \A s \in Symbols : fetchState[s] = "resolved"
    /\ 1 \in threw =>
          \/ \E s \in Symbols : fetchState[s] = "rejected"
          \/ \A s \in Symbols : fetchState[s] = "resolved"

\* Tier 2 is under way while the silver fetch has not even been answered.
C18_Witness ==
    /\ pc = "awaitTier2"
    /\ fetchState["XAU"] = "rejected"
    /\ fetchState["XAG"] = "pending"

-----------------------------------------------------------------------------
(* The dashboard component App, src/unnamed/part_000 lines 51-178 *)

\* the state kept in variables of the module instead of the component
setState_detached(cur, new) == new

\* A state setter of useState: React drops the update of a component that
\* is no longer mounted.
setState(cur, new) == IF mounted THEN new ELSE cur

\* loadPrices storing what it awaited as it came
cleanData_absent(d) == d

\* Lines 111-118.
cleanData(d) ==
    [d EXCEPT !.gold24k = IF isNaN(@) THEN Num(Rupees(8650)) ELSE @,
              !.gold22k = IF isNaN(@) THEN Num(Rupees(7930)) ELSE @,
              !.gold18k = IF isNaN(@) THEN Num(Rupees(6480)) ELSE @,
              !.silver = IF isNaN(@) THEN Num(Rupees(108500)) ELSE @,
              !.copper = IF isNaN(@) THEN Num(Rupees(920)) ELSE @]

\* change = 1 + Math.random() * 0.001, the draw not centred on 0
Perturbed_uncentred(val, rnd) ==
    IF val.k = "num" THEN Num(val.v + (val.v * rnd) \div 10000) ELSE val

\* change = 1 + (Math.random() * 0.01 - 0.005), ten times the swing
Perturbed_tenfold(val, rnd) ==
    IF val.k = "num" THEN Num(val.v + (val.v * (rnd - 5)) \div 1000) ELSE val

\* val * change, change = 1 + (Math.random() * 0.001 - 0.0005), line 143-144.
\* rnd is the value of Math.random() in tenths, so change = 1 + (rnd - 5) / 10000.
Perturbed(val, rnd) ==
    IF val.k = "num" THEN Num(val.v + (val.v * (rnd - 5)) \div 10000) ELSE val

\* Lines 141-146.
fluctuate(val, rnd) ==
    IF isNaN(val) THEN Num(Rupees(1000))
    ELSE LET product == Perturbed(val, rnd)
         IN IF isNaN(product) THEN val ELSE product

\* the tick stamping the snapshot it perturbs
Updated_restamped(prev, rv) ==
    [f \in DOMAIN prev |->
        IF f \in PriceFields THEN fluctuate(prev[f], rv[f])
        ELSE IF f = "lastUpdated" THEN "now" ELSE prev[f]]

\* Lines 148-155.
Updated(prev, rv) ==
    [f \in DOMAIN prev |->
        IF f \in PriceFields THEN fluctuate(prev[f], rv[f]) ELSE prev[f]]

\* -19 of line 166
SliceFrom == 19

\* seq.slice(-20)
slice_twenty(seq) ==
    IF Len(seq) <= 20 THEN seq ELSE SubSeq(seq, Len(seq) - 19, Len(seq))

\* seq.slice(-19)
slice(seq) ==
    IF Len(seq) <= SliceFrom THEN seq
    ELSE SubSeq(seq, Len(seq) - SliceFrom + 1, Len(seq))

\* the gold chart fed with the 22k price
MetalField_gold22k(m) ==
    CASE m = "gold" -> "gold22k"
      [] m = "silver" -> "silver"
      [] m = "copper" -> "copper"

\* Line 164: the field charted for a metal.
MetalField(m) ==
    CASE m = "gold" -> "gold24k"
      [] m = "silver" -> "silver"
      [] m = "copper" -> "copper"

HistoryPoint(now, val) == [time |-> now, value |-> val]

\* Lines 159-171: the updater handed to setHistory.
NewHistory(h, updated, now) ==
    [m \in Metals |->
        LET val == updated[MetalField(m)]
        IN IF ~isNaN(val)
           THEN Append(slice(h[m]), HistoryPoint(now, val))
           ELSE h[m]]

\* How a call of fetchLiveMetalPrices may settle for loadPrices.
Tier1Outcome(gold, silver, gen) ==
    LET l == Tier1Convert(Quote(gold), Quote(silver))
    IN [threw |-> FALSE, val |-> Tier1Return(l, gen)]

Tier2Outcome(gen) == Tier2Catch(Tier2Try(gen))

ValidJson ==
    JsonObject([key \in JsonKeys |->
                   IF key = "last_updated_time" THEN Str ELSE Num(Rupees(7000))])

Outcomes ==
    {Tier1Outcome(Num(62207 * 108), Num(62207), Rejected),
     Tier1Outcome(Undefined, Num(Rupees(50)), Text(<<TInf>>)),
     Tier1Outcome(Num(62207 * 144), Undefined, Text(<<TNum(0 - Rupees(5))>>)),
     Tier2Outcome(Text(ValidJson)),
     Tier2Outcome(Rejected)}

\* Math.random() of one tick, per field, in tenths
RandomVectors ==
    {[f \in PriceFields |-> 5],
     [f \in PriceFields |-> 0],
     [gold24k |-> 0, gold22k |-> 9, gold18k |-> 5, silver |-> 9, copper |-> 0],
     [gold24k |-> 9, gold22k |-> 5, gold18k |-> 9, silver |-> 0, copper |-> 9]}

\* a seeded Math.random(): the vector of the tick after clock ticks
SeededVector(n) ==
    CASE n % 5 = 0 -> [f \in PriceFields |-> 0]
      [] n % 5 = 1 -> [gold24k |-> 0, gold22k |-> 9, gold18k |-> 5, silver |-> 9, copper |-> 0]
      [] n % 5 = 2 -> [f \in PriceFields |-> 5]
      [] n % 5 = 3 -> [gold24k |-> 9, gold22k |-> 5, gold18k |-> 0, silver |-> 0, copper |-> 9]
      [] OTHER -> [f \in PriceFields |-> 9]

MaxRefresh == 2
MaxTicks == 2
MaxLongTicks == 25

\* Lines 106-107: loadPrices runs up to its await.
StartRefresh ==
    /\ mounted
    /\ started < MaxRefresh
    /\ started' = started + 1
    /\ inflight' = inflight \cup {started + 1}
    /\ loading' = setState(loading, TRUE)
    /\ UNCHANGED <<mounted, basePrices, livePrices, lastFetch, history,
                   refreshTimer, tickers, clock, dataLoaded, writer, draws,
                   sinceRefresh, appended, aggVars>>

\* Line 128: the 60 s interval fires.
TimerRefresh == refreshTimer /\ StartRefresh

\* Lines 285-287: the refresh button, disabled while loading.
ManualRefresh == ~loading /\ StartRefresh

\* the effect of line 133 without its cleanup: every completion adds an
\* interval and clears none
CompleteRefresh_leakingTicker(r, q) ==
    /\ r \in inflight
    /\ inflight' = inflight \ {r}
    /\ IF q.threw
       THEN UNCHANGED <<basePrices, livePrices, loading, lastFetch, tickers,
                        dataLoaded, writer, sinceRefresh>>
       ELSE /\ dataLoaded' = q.val
            /\ basePrices' = setState(basePrices, cleanData(q.val))
            /\ livePrices' = setState(livePrices, cleanData(q.val))
            /\ loading' = setState(loading, FALSE)
            /\ lastFetch' = setState(lastFetch, lastFetch + 1)
            /\ tickers' = IF mounted THEN tickers + 1 ELSE tickers
            /\ writer' = IF mounted THEN r ELSE writer
            /\ sinceRefresh' = IF mounted THEN 0 ELSE sinceRefresh
    /\ UNCHANGED <<mounted, history, started, refreshTimer, clock, draws,
                   appended, aggVars>>

\* Lines 108-123 and 133-178: the await of call r settles with q; loadPrices
\* writes the state, and the effect of line 133, which depends on
\* basePrices, clears its interval and sets a new one.
CompleteRefresh(r, q) ==
    /\ r \in inflight
    /\ inflight' = inflight \ {r}
    /\ IF q.threw
       THEN UNCHANGED <<basePrices, livePrices, loading, lastFetch, tickers,
                        dataLoaded, writer, sinceRefresh>>
       ELSE /\ dataLoaded' = q.val
            /\ basePrices' = setState(basePrices, cleanData(q.val))
            /\ livePrices' = setState(livePrices, cleanData(q.val))
            /\ loading' = setState(loading, FALSE)
            /\ lastFetch' = setState(lastFetch, lastFetch + 1)
            /\ tickers' = IF mounted
                          THEN (IF tickers > 0 THEN tickers - 1 ELSE 0) + 1
                          ELSE tickers
            /\ writer' = IF mounted THEN r ELSE writer
            /\ sinceRefresh' = IF mounted THEN 0 ELSE sinceRefresh
    /\ UNCHANGED <<mounted, history, started, refreshTimer, clock, draws,
                   appended, aggVars>>

RefreshComplete(r) == \E q \in Outcomes : CompleteRefresh(r, q)

\* the interval callback perturbing the basePrices of its closure
TickWith_fromBase(rv) ==
    /\ mounted
    /\ tickers > 0
    /\ clock' = clock + 1
    /\ IF livePrices = NoPrices
       THEN UNCHANGED <<livePrices, history, draws, sinceRefresh, appended>>
       ELSE LET updated == [f \in DOMAIN basePrices |->
                              IF f \in PriceFields
                              THEN IF isNaN(basePrices[f]) THEN Num(Rupees(1000))
                                   ELSE IF basePrices[f].k = "num"
                                   THEN Num(basePrices[f].v
                                            + (basePrices[f].v * (rv[f] - 5)) \div 10000)
                                   ELSE basePrices[f]
                              ELSE basePrices[f]]
            IN /\ livePrices' = updated
               /\ history' = [m \in Metals |->
                                 Append(IF Len(history[m]) <= 19 THEN history[m]
                                        ELSE SubSeq(history[m], Len(history[m]) - 18,
                                                    Len(history[m])),
                                        [time |-> clock + 1,
                                         value |-> updated[IF m = "gold" THEN "gold24k" ELSE m]])]
               /\ appended' = [m \in Metals |->
                                 Append(appended[m],
                                        [time |-> clock + 1,
                                         value |-> updated[IF m = "gold" THEN "gold24k" ELSE m]])]
               /\ draws' = rv
               /\ sinceRefresh' = sinceRefresh + 1
    /\ UNCHANGED <<mounted, basePrices, loading, lastFetch, inflight, started,
                   refreshTimer, tickers, dataLoaded, writer, aggVars>>

\* Lines 136-175: the 1 s interval fires with the Math.random() values rv.
TickWith(rv) ==
    /\ mounted
    /\ tickers > 0
    /\ clock' = clock + 1
    /\ IF livePrices = NoPrices
       THEN UNCHANGED <<livePrices, history, draws, sinceRefresh, appended>>
       ELSE LET updated == Updated(livePrices, rv)
            IN /\ livePrices' = updated
               /\ history' = NewHistory(history, updated, clock + 1)
               /\ appended' = [m \in Metals |->
                                 IF ~isNaN(updated[MetalField(m)])
                                 THEN Append(appended[m],
                                             HistoryPoint(clock + 1, updated[MetalField(m)]))
                                 ELSE appended[m]]
               /\ draws' = rv
               /\ sinceRefresh' = sinceRefresh + 1
    /\ UNCHANGED <<mounted, basePrices, loading, lastFetch, inflight, started,
                   refreshTimer, tickers, dataLoaded, writer, aggVars>>

\* a ticker that pauses while a refresh is loading
Tick_pausedWhileLoading ==
    ~loading /\ clock < MaxTicks /\ \E rv \in RandomVectors : TickWith(rv)

Tick == clock < MaxTicks /\ \E rv \in RandomVectors : TickWith(rv)

\* Lines 129 and 177: the cleanups of the two effects.
Unmount ==
    /\ mounted
    /\ mounted' = FALSE
    /\ refreshTimer' = FALSE
    /\ tickers' = 0
    /\ UNCHANGED <<basePrices, livePrices, loading, lastFetch, history,
                   inflight, started, clock, dataLoaded, writer, draws,
                   sinceRefresh, appended, aggVars>>

AppInit == AggIdle /\ AppState(TRUE)

AppNext ==
    \/ TimerRefresh
    \/ ManualRefresh
    \/ \E r \in 1..MaxRefresh : RefreshComplete(r)
    \/ Tick
    \/ Unmount

\* The dashboard, with the aggregator seen through what its calls return.
AppSpec == AppInit /\ [][AppNext]_vars

\* The dashboard when every call of fetchLiveMetalPrices settles.
AppFair ==
    AppSpec /\ \A r \in 1..MaxRefresh : WF_vars(RefreshComplete(r))

\* The first seconds after mount, no refresh but the one of the mount, with
\* a seeded Math.random().
LongTick == clock < MaxLongTicks /\ TickWith(SeededVector(clock))

FirstRefreshComplete == RefreshComplete(1)

LongNext == FirstRefreshComplete \/ LongTick \/ Unmount

LongSpec == AppInit /\ [][LongNext]_vars

-----------------------------------------------------------------------------
(* Properties of the dashboard *)

Loaded == livePrices # NoPrices

\* a step of the ticker that found a snapshot to update
TickStep == clock' = clock + 1 /\ Loaded

\* a step in which a loadPrices call of the mounted component completes
CompletionStep == mounted /\ inflight' # inflight /\ inflight' \subseteq inflight

ZeroDraws == [f \in PriceFields |-> 5]

\* C11: after any sequence of refresh completions and ticks no price field
\* of livePrices is NaN; a tick maps a NaN field to 1000, a field whose
\* perturbed product is NaN to its prior value, and any other field to the
\* perturbed value.
C11_NoNaN ==
    /\ [](Loaded => \A f \in PriceFields : IsNumber(livePrices[f]) /\ livePrices[f].k # "nan")
    /\ [][TickStep =>
            \A f \in PriceFields :
                livePrices'[f] =
                    CASE livePrices[f].k = "nan" -> Num(Rupees(1000))
                      [] Perturbed(livePrices[f], draws'[f]).k = "nan" -> livePrices[f]
                      [] OTHER -> Perturbed(livePrices[f], draws'[f])]_vars

\* The aggregator returned NaN for gold24k and for silver, and the ticker
\* has run on what loadPrices made of it.
C11_Witness ==
    /\ dataLoaded.silver = NaN
    /\ sinceRefresh = 1
    /\ draws.silver = 9
    /\ livePrices.silver = Num(Rupees(108500) + 1041)

\* C12: with the draw fixed at 0, change = 1, a tick leaves the snapshot as
\* it was in all seven fields.
C12_ZeroDrift ==
    [][(TickStep /\ draws' = ZeroDraws) => livePrices' = livePrices]_vars

C12_Witness ==
    /\ sinceRefresh = 1
    /\ draws = ZeroDraws
    /\ livePrices = basePrices
    /\ livePrices.copper = Infinity

Min(a, b) == IF a < b THEN a ELSE b

\* C13: each history holds at most 20 points, and after n ticks it is the
\* last min(n, 20) of the points appended, in the order of appending.
C13_Window ==
    \A m \in Metals :
        LET n == Len(appended[m])
            k == Min(n, 20)
        IN /\ n = clock
           /\ \A i \in 1..n : appended[m][i].time = i
           /\ Len(history[m]) <= 20
           /\ history[m] = SubSeq(appended[m], n - k + 1, n)

\* after 25 ticks the histories are the points 6..25
C13_Witness ==
    /\ clock = 25
    /\ \A m \in Metals :
          /\ Len(history[m]) = 20
          /\ history[m] = SubSeq(appended[m], 6, 25)
          /\ history[m][1].time = 6
          /\ history[m][20].time = 25

\* what lines 111-118 make of a field of the awaited data
CleanField(f, v) ==
    IF v.k # "nan" THEN v
    ELSE CASE f = "gold24k" -> Num(Rupees(8650))
           [] f = "gold22k" -> Num(Rupees(7930))
           [] f = "gold18k" -> Num(Rupees(6480))
           [] f = "silver" -> Num(Rupees(108500))
           [] f = "copper" -> Num(Rupees(920))

\* C14: a completing refresh sets livePrices and basePrices to the same
\* cleaned snapshot of that refresh, whatever drift had accumulated; a tick
\* perturbs the previous livePrices and leaves basePrices alone, so drift
\* compounds from tick to tick.
C14_Reseed ==
    /\ [][CompletionStep =>
            /\ livePrices' = basePrices'
            /\ \A f \in PriceFields : basePrices'[f] = CleanField(f, dataLoaded'[f])
            /\ basePrices'.lastUpdated = dataLoaded'.lastUpdated
            /\ basePrices'.currency = dataLoaded'.currency]_vars
    /\ [][TickStep =>
            /\ basePrices' = basePrices
            /\ \A f \in PriceFields :
                  livePrices'[f] = fluctuate(livePrices[f], draws'[f])]_vars

\* Two ticks upwards since the refresh: silver has moved further than one
\* tick moves it.
C14_Witness ==
    /\ sinceRefresh = 2
    /\ basePrices.silver = Num(Rupees(108500))
    /\ livePrices.silver = Num(Rupees(108500) + 1041 + 1042)

Completed == (1..started) \ inflight

\* C16: when refreshes overlap, the one started earlier never overwrites
\* what the one started later has written: the state of the mounted
\* component is that of the latest-started refresh among the completed ones.
C16_NoStaleWrite ==
    (mounted /\ Completed # {}) => \A r \in Completed : r <= writer

\* C17: a refresh that never settles does not stall the ticker: once a
\* snapshot is loaded the tick can fire while a refresh is in flight, and a
\* tick fired then updates livePrices and appends to every history.
C17_TickerRuns ==
    /\ []((mounted /\ basePrices # NoPrices /\ inflight # {} /\ clock < MaxTicks)
            => ENABLED Tick)
    /\ [][(TickStep /\ inflight # {}) =>
            /\ livePrices' = Updated(livePrices, draws')
            /\ \A m \in Metals :
                  /\ Len(history'[m]) = Len(history[m]) + 1
                  /\ history'[m][Len(history'[m])].value = livePrices'[MetalField(m)]]_vars

\* The second refresh has been in flight, and loading true, during two ticks.
C17_Witness ==
    /\ inflight = {2} /\ writer = 1 /\ loading
    /\ sinceRefresh = 2
    /\ Len(history["gold"]) = 2
    /\ livePrices # basePrices

\* C19: every refresh whose external calls settle completes; a completing
\* refresh of the mounted component sets loading to false and basePrices and
\* livePrices to a snapshot, whatever the upstream calls answered; the
\* dashboard is never left loading with no refresh in flight.
C19_Completes ==
    /\ \A r \in 1..MaxRefresh : (r \in inflight) ~> (r \notin inflight)
    /\ [][CompletionStep =>
            /\ ~loading'
            /\ IsMetalPrices(basePrices')
            /\ livePrices' = basePrices']_vars
    /\ []((mounted /\ inflight = {}) => (~loading /\ Loaded))

\* Every upstream call of the last refresh failed: the static snapshot is up.
C19_Witness ==
    /\ mounted /\ inflight = {} /\ started = 2
    /\ ~loading
    /\ dataLoaded = StaticPrices
    /\ basePrices = StaticPrices /\ livePrices = StaticPrices

RECURSIVE Highest(_, _)
\* the most k ticks can make of x, each within 0.05 %
Highest(x, k) == IF k = 0 THEN x ELSE Highest(x + (5 * x) \div 10000, k - 1)

RECURSIVE Lowest(_, _)
\* the least k ticks can make of x, each within 0.05 % and the rounding of
\* the grid
Lowest(x, k) == IF k = 0 THEN x ELSE Lowest(x - (5 * x) \div 10000 - 1, k - 1)

\* C20: a tick perturbs each price field with its own draw,
\* new = old * (1 + u), u within [-0.0005, 0.0005]; a positive field stays
\* within 0.05 % of its value before the tick and, k ticks after a refresh,
\* within (1 -+ 0.0005)^k of its value at the refresh; nothing clamps it to
\* the plausibility band.
C20_Drift ==
    /\ [][TickStep =>
            \A f \in PriceFields :
                /\ draws'[f] - 5 \in -5..5
                /\ livePrices'[f] = Perturbed(livePrices[f], draws'[f])
                /\ (livePrices[f].k = "num" /\ livePrices[f].v > 0) =>
                      /\ livePrices'[f].k = "num"
                      /\ livePrices'[f].v <= Highest(livePrices[f].v, 1)
                      /\ livePrices'[f].v >= Lowest(livePrices[f].v, 1)]_vars
    /\ [](Loaded =>
            \A f \in PriceFields :
                (basePrices[f].k = "num" /\ basePrices[f].v > 0) =>
                    /\ livePrices[f].k = "num"
                    /\ livePrices[f].v <= Highest(basePrices[f].v, sinceRefresh)
                    /\ livePrices[f].v >= Lowest(basePrices[f].v, sinceRefresh))

\* Gold at the upper edge of the band has drifted above it while silver, on
\* a draw of its own, went down.
C20_Witness ==
    /\ sinceRefresh = 2
    /\ basePrices.gold24k = Num(Rupees(12000))
    /\ livePrices.gold24k.v > Rupees(12000) + 200
    /\ draws.gold24k = 9 /\ draws.silver = 0
    /\ livePrices.silver.v < basePrices.silver.v

\* the price a tick charts for each metal
ChartedPrice(p) ==
    [gold |-> p.gold24k, silver |-> p.silver, copper |-> p.copper]

\* C21: a tick that updates livePrices appends exactly one point to each of
\* the three histories, its value the updated gold24k, silver and copper;
\* the three histories have the same length; nothing but such a tick
\* changes a history, which starts empty and which no refresh resets or
\* shortens.
C21_OnePointEach ==
    /\ [][TickStep =>
            \A m \in Metals :
                LET point == [time |-> clock', value |-> ChartedPrice(livePrices')[m]]
                IN /\ appended'[m] = Append(appended[m], point)
                   /\ Len(history'[m]) = Min(Len(history[m]) + 1, 20)
                   /\ history'[m][Len(history'[m])] = point]_vars
    /\ [](/\ Len(history["gold"]) = Len(history["silver"])
          /\ Len(history["silver"]) = Len(history["copper"]))
    /\ [][history' # history => TickStep]_vars
    /\ [](clock = 0 => \A m \in Metals : history[m] = <<>>)
    /\ [][CompletionStep => history' = history]_vars

\* Two ticks with different draws per field: each history holds two points,
\* the last one that of the live snapshot, gold charted at the 24k price.
C21_Witness ==
    /\ clock = 2
    /\ \A m \in Metals : Len(history[m]) = 2
    /\ history["gold"][2].value = livePrices.gold24k
    /\ history["gold"][2].value # livePrices.gold22k
    /\ history["silver"][2].value = livePrices.silver
    /\ history["copper"][2].value = livePrices.copper
    /\ history["gold"][1].value # history["gold"][2].value

\* C22: loading is true whenever a refresh is in flight, overlapping
\* refreshes included, so the refresh button is enabled only when none is
\* pending.
C22_LoadingWhileInFlight ==
    (mounted /\ inflight # {}) => loading

\* C23: a tick leaves basePrices, loading, lastFetch and the lastUpdated
\* and currency of the live snapshot unchanged; a refresh completion
\* leaves the histories unchanged.
C23_Frame ==
    /\ [][clock' = clock + 1 =>
            /\ basePrices' = basePrices
            /\ loading' = loading
            /\ lastFetch' = lastFetch
            /\ livePrices'.lastUpdated = livePrices.lastUpdated
            /\ livePrices'.currency = livePrices.currency]_vars
    /\ [][inflight' # inflight /\ inflight' \subseteq inflight =>
            history' = history]_vars

\* A snapshot stamped by the model's tier 2 has been perturbed and kept its
\* stamp, after a second completion that found a history and left it.
C23_Witness ==
    /\ lastFetch = 2 /\ inflight = {}
    /\ sinceRefresh = 1
    /\ Len(history["gold"]) = 2
    /\ livePrices.lastUpdated = "json"
    /\ basePrices.lastUpdated = "json"
    /\ livePrices.gold24k # basePrices.gold24k

\* C24: no tick takes effect before the first refresh has completed: while
\* basePrices is null no tick timer runs, livePrices is null and the
\* histories are empty; at most one tick timer is active at any time; no
\* tick occurs after unmount.
C24_OneTicker ==
    /\ [](basePrices = NoPrices =>
            /\ tickers = 0
            /\ livePrices = NoPrices
            /\ \A m \in Metals : history[m] = <<>>)
    /\ [][basePrices = NoPrices => clock' = clock]_vars
    /\ [](tickers <= 1)
    /\ [](~mounted => tickers = 0)
    /\ [][~mounted =>
            /\ clock' = clock
            /\ history' = history
            /\ livePrices' = livePrices]_vars

\* The second completion has replaced the running timer: one timer, after a
\* tick on each side of it.
C24_Witness ==
    /\ mounted
    /\ started = 2 /\ inflight = {} /\ writer = 2
    /\ tickers = 1
    /\ clock = 2 /\ sinceRefresh = 1

====
